---- MODULE Spec2Model ----
(***************************************************************************)
(* A model of src/rag/tokenizer_advanced.py: the BPETokenizer class        *)
(* (construction, train, _pre_tokenize, _tokenize_word, encode, decode,    *)
(* save, load) and the SimpleSubwordTokenizer class (construction,         *)
(* build_vocab, encode).                                                   *)
(*                                                                         *)
(* Representation.  A Python character is a one-character TLA+ string, a   *)
(* Python str (a text, a word, a token) is a sequence of characters, so    *)
(* that ''.join is \o and iteration over a str is iteration over the       *)
(* sequence.  A Python tuple (l, r) is the record Tuple(l, r) and a JSON   *)
(* array [l, r] is the record List(l, r): the two are different values, as *)
(* ('a','b') == ['a','b'] is False in Python.  An insertion-ordered dict   *)
(* whose order the code relies on (Counter, defaultdict) is a sequence of  *)
(* entries in insertion order; vocab, whose order is never used, is a      *)
(* function.                                                               *)
(***************************************************************************)
EXTENDS Integers, Sequences, FiniteSets, TLC

VARIABLES
    vocab_size,   \* self.vocab_size
    vocab,        \* self.vocab: token -> id
    merges,       \* self.merges: sequence of Tuple(l, r)
    inv_vocab,    \* self.inv_vocab: <<>> while the attribute does not exist, else <<id -> token>>
    pc,           \* "new" | "training" (inside train's while loop) | "trained" | "loaded" | "load_failed"
    texts,        \* train's argument
    word_freqs,   \* train's local Counter: sequence of [word, freq] in insertion order
    vocab_list,   \* train's local list `vocab`
    splits,       \* train's local dict: word -> sequence of symbols
    file,         \* the file written by save: <<>> or <<record>>
    saved,        \* history: the fields of the tokenizer at the time of save
    ret,          \* the outcome of the last call: [op, arg, outcome, value]
    simple        \* a SimpleSubwordTokenizer: [token_to_id, id_to_token, vocab_size]

vars == <<vocab_size, vocab, merges, inv_vocab, pc, texts, word_freqs,
          vocab_list, splits, file, saved, ret, simple>>

----------------------------------------------------------------------------
(* Bounds of the model *)

\* longest document of a one-document training corpus
MaxTextLen == 5
\* longest document of a two-document training corpus
MaxShortLen == 2
\* largest configured vocab_size (besides the 30 of the documented example)
MaxVocabSize == 9
\* longest text given to encode
MaxEncLen == 2
\* longest id sequence given to decode
MaxDecLen == 2
\* the number of most frequent words build_vocab keeps: the 3000 of line 264
\* scaled down, so that texts with more distinct words exist
TopWords == 2

----------------------------------------------------------------------------
(* Characters and strings *)

\* the characters regex \w matches, among those the model uses
WordChars == {"a", "b", "c", "d", "e", "h", "k", "m", "n", "o", "p", "s", "t",
              "u", "z", "A", "B"}

\* the characters regex \s matches
SpaceChars == {" "}

\* str.lower() on one character
lower_char(c) == IF c = "A" THEN "a" ELSE IF c = "B" THEN "b" ELSE c

\* str.lower()
lower(s) == [i \in 1..Len(s) |-> lower_char(s[i])]

pad_token == <<"<", "|", "p", "a", "d", "|", ">">>
unk_token == <<"<", "|", "u", "n", "k", "|", ">">>
bos_token == <<"<", "|", "b", "o", "s", "|", ">">>
eos_token == <<"<", "|", "e", "o", "s", "|", ">">>

special_tokens == <<pad_token, unk_token, bos_token, eos_token>>

Range(s) == {s[i] : i \in DOMAIN s}

Tuple(l, r) == [kind |-> "tuple", l |-> l, r |-> r]
List(l, r) == [kind |-> "list", l |-> l, r |-> r]

----------------------------------------------------------------------------
(* _pre_tokenize: re.findall(r'\w+|[^\w\s]', text.lower()) *)

RECURSIVE WordEnd(_, _)
\* the last index of the maximal run of \w characters that starts at i
WordEnd(s, i) ==
    IF i < Len(s) /\ s[i + 1] \in WordChars THEN WordEnd(s, i + 1) ELSE i

RECURSIVE findall(_, _)
\* the matches of \w+|[^\w\s] in s from index i on, left to right
findall(s, i) ==
    IF i > Len(s) THEN <<>>
    ELSE IF s[i] \in WordChars
         THEN <<SubSeq(s, i, WordEnd(s, i))>> \o findall(s, WordEnd(s, i) + 1)
    ELSE IF s[i] \in SpaceChars
         THEN findall(s, i + 1)
    ELSE <<(<<s[i]>>)>> \o findall(s, i + 1)

_pre_tokenize(text) == findall(lower(text), 1)

----------------------------------------------------------------------------
(* train, lines 70-87: word frequencies, initial vocabulary, splits *)

HasKey(d, k) == \E i \in DOMAIN d : d[i].key = k
Keys(d) == [i \in DOMAIN d |-> d[i].key]

\* d[k] += n on a Counter / defaultdict(int): a new key goes to the end
\* (x is the dict, evaluated once)
AddTo(d, k, n) ==
    CHOOSE r \in {IF HasKey(x, k)
                  THEN [i \in DOMAIN x |-> IF x[i].key = k
                                           THEN [key |-> k, val |-> x[i].val + n]
                                           ELSE x[i]]
                  ELSE Append(x, [key |-> k, val |-> n]) : x \in {d}} : TRUE

RECURSIVE CounterUpdate(_, _)
\* Counter.update(words)
CounterUpdate(d, words) ==
    IF words = <<>> THEN d
    ELSE CounterUpdate(AddTo(d, Head(words), 1), Tail(words))

RECURSIVE CountWords(_, _)
\* lines 71-74
CountWords(d, docs) ==
    IF docs = <<>> THEN d
    ELSE CountWords(CounterUpdate(d, _pre_tokenize(Head(docs))), Tail(docs))

\* lines 80-81, buggy variant: the membership test is dropped
AppendCharAlways(v, char) == Append(v, <<char>>)

\* lines 80-81
AppendChar(v, char) == IF <<char>> \in Range(v) THEN v ELSE Append(v, <<char>>)

RECURSIVE AddChars(_, _)
\* lines 79-81 for one word
AddChars(v, word) ==
    IF word = <<>> THEN v ELSE AddChars(AppendChar(v, Head(word)), Tail(word))

RECURSIVE InitVocab(_, _)
\* lines 78-81
InitVocab(v, words) ==
    IF words = <<>> THEN v ELSE InitVocab(AddChars(v, Head(words)), Tail(words))

\* [c for c in word]
Chars(word) == [i \in 1..Len(word) |-> <<word[i]>>]

----------------------------------------------------------------------------
(* train, lines 90-127: one iteration of the merge loop *)

RECURSIVE CountPairsIn(_, _, _, _)
\* lines 97-99 from index i on: range(len(split) - 1)
CountPairsIn(pf, split, freq, i) ==
    IF i > Len(split) - 1 THEN pf
    ELSE CountPairsIn(AddTo(pf, Tuple(split[i], split[i + 1]), freq), split, freq, i + 1)

RECURSIVE CountPairsSkipLast(_, _, _, _)
\* lines 97-99, buggy variant: range(len(split) - 2)
CountPairsSkipLast(pf, split, freq, i) ==
    IF i > Len(split) - 2 THEN pf
    ELSE CountPairsSkipLast(AddTo(pf, Tuple(split[i], split[i + 1]), freq), split, freq, i + 1)

\* lines 94-99 for one word, buggy variant
CountPairsButLast(pf, split, freq) == CountPairsSkipLast(pf, split, freq, 1)

\* lines 94-99 for one word
CountPairs(pf, split, freq) == CountPairsIn(pf, split, freq, 1)

RECURSIVE PairFreqs(_, _, _, _)
\* lines 92-99: words from index i on
PairFreqs(pf, wf, sp, i) ==
    IF i > Len(wf) THEN pf
    ELSE PairFreqs(CountPairs(pf, sp[wf[i].key], wf[i].val), wf, sp, i + 1)

RECURSIVE MaxFrom(_, _, _)
\* max(pair_freqs, key=pair_freqs.get): the first key whose value no later
\* key exceeds; best is the index of the best key so far
MaxFrom(pf, i, best) ==
    IF i > Len(pf) THEN pf[best].key
    ELSE MaxFrom(pf, i + 1, IF pf[i].val > pf[best].val THEN i ELSE best)

RECURSIVE MaxLastFrom(_, _, _)
\* buggy variant: a later key of equal value replaces the best so far
MaxLastFrom(pf, i, best) ==
    IF i > Len(pf) THEN pf[best].key
    ELSE MaxLastFrom(pf, i + 1, IF pf[i].val >= pf[best].val THEN i ELSE best)

MaxLast(pf) == MaxLastFrom(pf, 2, 1)

\* line 105
Max(pf) == MaxFrom(pf, 2, 1)

RECURSIVE MergeIn(_, _, _)
\* lines 118-126 (and 153-161): one left-to-right sweep from index i on
MergeIn(split, pair, i) ==
    IF i > Len(split) THEN <<>>
    ELSE IF i < Len(split) /\ Tuple(split[i], split[i + 1]) = pair
         THEN <<pair.l \o pair.r>> \o MergeIn(split, pair, i + 2)
    ELSE <<split[i]>> \o MergeIn(split, pair, i + 1)

\* lines 114-127 for one word
MergeSplit(split, pair) ==
    IF Len(split) = 1 THEN split ELSE MergeIn(split, pair, 1)

\* lines 133: {token: idx for idx, token in enumerate(vocab)}; a repeated
\* token keeps its last index
VocabOf(v) ==
    [t \in Range(v) |-> (CHOOSE i \in DOMAIN v :
                            v[i] = t /\ \A j \in DOMAIN v : v[j] = t => j <= i) - 1]

\* line 134: {idx: token for token, idx in self.vocab.items()}
Inverse(voc) ==
    [n \in {voc[t] : t \in DOMAIN voc} |-> CHOOSE t \in DOMAIN voc : voc[t] = n]

----------------------------------------------------------------------------
(* _tokenize_word, encode, decode *)

RECURSIVE ApplyMerges(_, _, _)
\* lines 152-165: the rules from index k on, stopping at a single symbol
ApplyMerges(chars, ms, k) ==
    IF k > Len(ms) THEN chars
    ELSE LET new_chars == MergeIn(chars, ms[k], 1)
         IN  IF Len(new_chars) = 1 THEN new_chars
             ELSE ApplyMerges(new_chars, ms, k + 1)

\* reversed(ms)
Reversed(ms) == [i \in DOMAIN ms |-> ms[Len(ms) + 1 - i]]

\* lines 145-167, buggy variant: the rules are applied last learned first
_tokenize_word_reversed(ms, word) ==
    IF ms = <<>> THEN Chars(word) ELSE ApplyMerges(Chars(word), Reversed(ms), 1)

\* lines 145-167
_tokenize_word(ms, word) ==
    IF ms = <<>> THEN Chars(word) ELSE ApplyMerges(Chars(word), ms, 1)

RECURSIVE Flatten(_)
Flatten(ss) == IF ss = <<>> THEN <<>> ELSE Head(ss) \o Flatten(Tail(ss))

\* the symbols encode looks up, in order (lines 179-184)
Symbols(ms, text) ==
    LET words == _pre_tokenize(text)
    IN  Flatten([i \in DOMAIN words |-> _tokenize_word(ms, words[i])])

\* line 188, buggy variant: the next free id stands for an unknown symbol
UnkIdFresh(voc) == Cardinality(DOMAIN voc)

\* line 188: self.vocab[self.unk_token]
UnkId(voc) == voc[unk_token]

\* lines 185-188 for one symbol; the lookup of the unk token raises KeyError
\* when the vocabulary does not hold it
LookupFails(voc, token) == token \notin DOMAIN voc /\ unk_token \notin DOMAIN voc

Lookup(voc, token) == IF token \in DOMAIN voc THEN voc[token] ELSE UnkId(voc)

\* lines 169-190: the outcome of encode on a tokenizer with vocabulary voc
\* and rules ms
encode(voc, ms, text) ==
    LET syms == Symbols(ms, text)
    IN  IF \E i \in DOMAIN syms : LookupFails(voc, syms[i])
        THEN [outcome |-> "KeyError", value |-> <<>>]
        ELSE [outcome |-> "ok", value |-> [i \in DOMAIN syms |-> Lookup(voc, syms[i])]]

RECURSIVE DecodeTokens(_, _)
\* lines 203-207 with inv the existing dict
DecodeTokens(inv, ids) ==
    IF ids = <<>> THEN <<>>
    ELSE (IF Head(ids) \in DOMAIN inv /\ inv[Head(ids)] \notin Range(special_tokens)
          THEN <<inv[Head(ids)]>> ELSE <<>>) \o DecodeTokens(inv, Tail(ids))

RECURSIVE MappedTokens(_, _)
\* lines 203-207, buggy variant: the test of line 206 is dropped
MappedTokens(inv, ids) ==
    IF ids = <<>> THEN <<>>
    ELSE (IF Head(ids) \in DOMAIN inv THEN <<inv[Head(ids)]>> ELSE <<>>)
         \o MappedTokens(inv, Tail(ids))

\* lines 192-209, buggy variant: special tokens are kept
decodeKeepSpecials(iv, ids) ==
    IF ids # <<>> /\ iv = <<>>
    THEN [outcome |-> "AttributeError", value |-> <<>>]
    ELSE [outcome |-> "ok",
          value |-> IF ids = <<>> THEN <<>> ELSE Flatten(MappedTokens(iv[1], ids))]

\* lines 192-209: self.inv_vocab is read once per id, and does not exist
\* before train or load
decode(iv, ids) ==
    IF ids # <<>> /\ iv = <<>>
    THEN [outcome |-> "AttributeError", value |-> <<>>]
    ELSE [outcome |-> "ok",
          value |-> IF ids = <<>> THEN <<>> ELSE Flatten(DecodeTokens(iv[1], ids))]

----------------------------------------------------------------------------
(* save and load *)

\* json.dump of a tuple writes a JSON array
ToJsonMerges(ms) == [i \in DOMAIN ms |-> List(ms[i].l, ms[i].r)]

\* lines 213-219
SaveData(voc, ms, vs) == [vocab |-> voc, merges |-> ToJsonMerges(ms), vocab_size |-> vs]

\* line 227, buggy variant: the arrays are kept as lists
KeepLists(jm) == jm

\* line 227: [tuple(m) for m in data['merges']]
ToTuples(jm) == [i \in DOMAIN jm |-> Tuple(jm[i].l, jm[i].r)]

\* the fields of the tokenizer object
Self == [vocab_size |-> vocab_size, vocab |-> vocab, merges |-> merges,
         inv_vocab |-> inv_vocab]

----------------------------------------------------------------------------
(* SimpleSubwordTokenizer: build_vocab and encode *)

simple_pad_token == <<"<", "P", "A", "D", ">">>
simple_unk_token == <<"<", "U", "N", "K", ">">>
simple_bos_token == <<"<", "B", "O", "S", ">">>
simple_eos_token == <<"<", "E", "O", "S", ">">>

\* lines 240-243: the fields before build_vocab
SimpleNew == [token_to_id |-> <<>>, id_to_token |-> <<>>, vocab_size |-> 0]

\* the characters of the model in code point order
CharOrder ==
    <<" ", ".", "<", ">", "A", "B", "a", "b", "c", "d", "e", "h", "k", "m", "n",
      "o", "p", "s", "t", "u", "z", "|">>

\* sorted(chars) for a set of characters
sorted(chars) == SelectSeq(CharOrder, LAMBDA c : c \in chars)

\* the number of entries that Counter.most_common puts before entry i: those
\* of a higher count, and those of the same count inserted earlier
Rank(counter, i) ==
    Cardinality({j \in DOMAIN counter :
                    \/ counter[j].val > counter[i].val
                    \/ counter[j].val = counter[i].val /\ j < i})

\* Counter.most_common(n)
most_common(counter, n) ==
    [k \in 1..(IF n < Len(counter) THEN n ELSE Len(counter)) |->
        counter[CHOOSE i \in DOMAIN counter : Rank(counter, i) = k - 1]]

\* lines 270-271, buggy variant: no character is added
AppendNoChar(v, char) == v

\* lines 270-271: if char not in vocab and char.strip()
AppendSimpleChar(v, char) ==
    IF <<char>> \notin Range(v) /\ char \notin SpaceChars
    THEN Append(v, <<char>>) ELSE v

RECURSIVE AddSortedChars(_, _)
\* lines 269-271
AddSortedChars(v, chars) ==
    IF chars = <<>> THEN v
    ELSE AddSortedChars(AppendSimpleChar(v, Head(chars)), Tail(chars))

\* lines 254-276: the fields build_vocab(text) assigns
build_vocab(text) ==
    LET word_freq == CounterUpdate(<<>>, findall(lower(text), 1))
        common_words == Keys(most_common(word_freq, TopWords))
        vocab0 == <<simple_pad_token, simple_unk_token, simple_bos_token,
                    simple_eos_token>> \o common_words
        v == AddSortedChars(vocab0, sorted(Range(lower(text))))
    IN  [token_to_id |-> VocabOf(v),
         id_to_token |-> Inverse(VocabOf(v)),
         vocab_size |-> Len(v)]

RECURSIVE SimpleEncodeChars(_, _)
\* lines 288-292: the ids of the characters of a word
SimpleEncodeChars(t2i, word) ==
    IF word = <<>> THEN <<>>
    ELSE <<(IF <<Head(word)>> \in DOMAIN t2i THEN t2i[<<Head(word)>>]
            ELSE t2i[simple_unk_token])>> \o SimpleEncodeChars(t2i, Tail(word))

RECURSIVE SimpleEncodeWords(_, _)
\* lines 283-292
SimpleEncodeWords(t2i, words) ==
    IF words = <<>> THEN <<>>
    ELSE (IF Head(words) \in DOMAIN t2i THEN <<t2i[Head(words)]>>
          ELSE SimpleEncodeChars(t2i, Head(words)))
         \o SimpleEncodeWords(t2i, Tail(words))

\* line 292 raises KeyError when a character and the unk token are both
\* absent from token_to_id
SimpleEncodeFails(t2i, words) ==
    \E i \in DOMAIN words :
        /\ words[i] \notin DOMAIN t2i
        /\ simple_unk_token \notin DOMAIN t2i
        /\ \E k \in DOMAIN words[i] : <<words[i][k]>> \notin DOMAIN t2i

\* lines 278-294: the outcome of encode(text)
simple_encode(t2i, text) ==
    LET words == findall(lower(text), 1)
    IN  IF SimpleEncodeFails(t2i, words)
        THEN [outcome |-> "KeyError", value |-> <<>>]
        ELSE [outcome |-> "ok", value |-> SimpleEncodeWords(t2i, words)]

----------------------------------------------------------------------------
(* Inputs *)

TextsOver(chars, n) == UNION {[1..k -> chars] : k \in 0..n}

\* join of words with single spaces
RECURSIVE Sentence(_)
Sentence(ws) ==
    IF Len(ws) = 1 THEN Head(ws) ELSE Head(ws) \o <<" ">> \o Sentence(Tail(ws))

\* the corpus of the documented example:
\* ["the cat sat on the mat", "the cat ate"]
Example ==
    <<Sentence(<<(<<"t", "h", "e">>), <<"c", "a", "t">>, <<"s", "a", "t">>,
                 <<"o", "n">>, <<"t", "h", "e">>, <<"m", "a", "t">>>>),
      Sentence(<<(<<"t", "h", "e">>), <<"c", "a", "t">>, <<"a", "t", "e">>>>)>>

TrainChars == {"a", "b", " "}

\* documents with upper case, punctuation, a special token's text
ExtraDocs ==
    {<<"A", "b", " ", "a", "B">>,
     <<"a", "b", ".", "a", "b", ".">>,
     <<"a", "a", "a", "a", "a", " ", "a", "a", "a">>,
     <<"a", "b", "c", " ", "b", "c", " ", "a", "b">>,
     pad_token,
     unk_token \o <<" ">> \o unk_token}

Docs == TextsOver(TrainChars, MaxTextLen) \cup ExtraDocs
ShortDocs == TextsOver(TrainChars, MaxShortLen)

Corpora ==
    {<<>>} \cup {<<d>> : d \in Docs} \cup {<<d1, d2>> : d1, d2 \in ShortDocs}

VocabSizes == 0..MaxVocabSize

\* what train is called with on a tokenizer of the given vocab_size
CorporaFor(vs) == IF vs = 30 THEN {Example} ELSE Corpora

NoRet == [op |-> "none", arg |-> <<>>, at |-> "new", outcome |-> "ok", value |-> <<>>]

----------------------------------------------------------------------------
(* Actions *)

\* BPETokenizer(vocab_size): lines 23-25; inv_vocab is not set
Init ==
    /\ vocab_size \in VocabSizes \cup {30}
    /\ vocab = <<>>
    /\ merges = <<>>
    /\ inv_vocab = <<>>
    /\ pc = "new"
    /\ simple = SimpleNew
    /\ texts = <<>>
    /\ word_freqs = <<>>
    /\ vocab_list = <<>>
    /\ splits = <<>>
    /\ file = <<>>
    /\ saved = <<>>
    /\ ret = NoRet

\* lines 92-99, buggy variant: the pairs of the words' characters are
\* counted, not those of the current splits
pair_freqs_of_chars ==
    PairFreqs(<<>>, word_freqs, [w \in DOMAIN splits |-> Chars(w)], 1)

\* the pair frequencies of the current iteration (lines 92-99)
pair_freqs == PairFreqs(<<>>, word_freqs, splits, 1)

\* the pair the current iteration selects (line 105)
best_pair == Max(pair_freqs)

\* train(texts), lines 70-87, up to the first test of the while loop; train
\* can be called on a tokenizer in any state, and assigns neither self.merges
\* nor self.vocab before the loop
TrainBegin(t) ==
    /\ pc # "training"
    /\ texts' = t
    /\ word_freqs' = CountWords(<<>>, t)
    /\ vocab_list' = InitVocab(special_tokens, Keys(word_freqs'))
    /\ splits' = [w \in Range(Keys(word_freqs')) |-> Chars(w)]
    /\ pc' = "training"
    /\ ret' = [op |-> "train", arg |-> t, at |-> pc, outcome |-> "running",
               value |-> <<>>]
    /\ UNCHANGED <<simple, vocab_size, vocab, merges, inv_vocab, file, saved>>

\* one iteration of the while loop, lines 90-127
MergeStep ==
    /\ pc = "training"
    /\ Len(vocab_list) < vocab_size
    /\ pair_freqs # <<>>
    /\ \E pair \in {best_pair} :
          /\ merges' = Append(merges, pair)
          /\ vocab_list' = Append(vocab_list, pair.l \o pair.r)
          /\ splits' = [w \in DOMAIN splits |-> MergeSplit(splits[w], pair)]
    /\ UNCHANGED <<simple, vocab_size, vocab, inv_vocab, pc, texts, word_freqs, file,
                   saved, ret>>

\* the loop ends (line 90 or line 102); lines 133-134
TrainEnd ==
    /\ pc = "training"
    /\ (Len(vocab_list) >= vocab_size \/ pair_freqs = <<>>)
    /\ vocab' = VocabOf(vocab_list)
    /\ inv_vocab' = <<Inverse(vocab')>>
    /\ pc' = "trained"
    /\ ret' = [ret EXCEPT !.outcome = "ok"]
    /\ UNCHANGED <<simple, vocab_size, merges, texts, word_freqs, vocab_list, splits,
                   file, saved>>

\* one train on a new tokenizer
Next ==
    \/ pc = "new" /\ \E t \in CorporaFor(vocab_size) : TrainBegin(t)
    \/ MergeStep
    \/ TrainEnd

Spec == Init /\ [][Next]_vars

----------------------------------------------------------------------------
(* The calls on a constructed tokenizer: train, encode, decode, save, load *)

EncChars == {"a", "b", "z", " "}

\* texts with upper case and punctuation
ExtraTexts ==
    {<<"A", "b", ".">>,
     <<"a", " ", ".", " ", "b">>,
     <<"a", "b", " ", "a", "b", ".">>,
     <<"a", "b", "a", "b", "z">>,
     <<"a", "a", "a", "a">>,
     <<"b", "c", " ", "a", "b", "c">>,
     <<"t", "h", "e", " ", "c", "a", "t">>,
     <<"t", "h", "a", "t", " ", "m", "a", "n">>,
     unk_token}

EncTexts == TextsOver(EncChars, MaxEncLen) \cup ExtraTexts

\* ids of special tokens, of characters, of merged tokens, and unmapped ids
DecIds == {-1, 1, 4, 5, 6, 40}

DecInputs == UNION {[1..k -> DecIds] : k \in 0..MaxDecLen}

CodecCorpora == {<<>>, Example} \cup {<<d>> : d \in ExtraDocs}

CodecVocabSizes == {Len(special_tokens), MaxVocabSize, 30}

\* a vocabulary whose ids are those of v shifted by k from index `from` on
ShiftedVocab(v, from, k) ==
    [t \in Range(v) |-> IF VocabOf(v)[t] >= from THEN VocabOf(v)[t] + k ELSE VocabOf(v)[t]]

SmallList == special_tokens \o <<(<<"a">>), <<"b">>, <<"a", "b">>>>
SmallMerges == <<List(<<"a">>, <<"b">>)>>

\* records a file may hold that save did not write: well formed, a field
\* absent, ids with a gap, ids that start at 1
ForeignData ==
    {[vocab |-> VocabOf(SmallList), merges |-> SmallMerges, vocab_size |-> Len(SmallList)],
     [merges |-> SmallMerges, vocab_size |-> Len(SmallList)],
     [vocab |-> VocabOf(SmallList), vocab_size |-> Len(SmallList)],
     [vocab |-> VocabOf(SmallList), merges |-> SmallMerges],
     [vocab |-> ShiftedVocab(SmallList, Len(special_tokens), 1), merges |-> SmallMerges,
      vocab_size |-> Len(SmallList)],
     [vocab |-> ShiftedVocab(SmallList, 0, 1), merges |-> SmallMerges,
      vocab_size |-> Len(SmallList)]}

\* BPETokenizer(vs): a new object replaces the tokenizer; the file stays
Construct(vs) ==
    /\ pc # "training"
    /\ vocab_size' = vs
    /\ vocab' = <<>>
    /\ merges' = <<>>
    /\ inv_vocab' = <<>>
    /\ pc' = "new"
    /\ texts' = <<>>
    /\ word_freqs' = <<>>
    /\ vocab_list' = <<>>
    /\ splits' = <<>>
    /\ ret' = NoRet
    /\ UNCHANGED <<simple, file, saved>>

\* encode(text), lines 169-190
Encode(text) ==
    /\ pc # "training"
    /\ ret' = [op |-> "encode", arg |-> text, at |-> pc,
               outcome |-> encode(vocab, merges, text).outcome,
               value |-> encode(vocab, merges, text).value]
    /\ UNCHANGED <<simple, vocab_size, vocab, merges, inv_vocab, pc, texts, word_freqs,
                   vocab_list, splits, file, saved>>

\* decode(token_ids), lines 192-209
Decode(ids) ==
    /\ pc # "training"
    /\ ret' = [op |-> "decode", arg |-> ids, at |-> pc,
               outcome |-> decode(inv_vocab, ids).outcome,
               value |-> decode(inv_vocab, ids).value]
    /\ UNCHANGED <<simple, vocab_size, vocab, merges, inv_vocab, pc, texts, word_freqs,
                   vocab_list, splits, file, saved>>

\* save(path), lines 211-219
Save ==
    /\ pc # "training"
    /\ file' = <<SaveData(vocab, merges, vocab_size)>>
    /\ saved' = <<[pc |-> pc, self |-> Self]>>
    /\ ret' = [op |-> "save", arg |-> <<>>, at |-> pc, outcome |-> "ok", value |-> <<>>]
    /\ UNCHANGED <<simple, vocab_size, vocab, merges, inv_vocab, pc, texts, word_freqs,
                   vocab_list, splits>>

\* load(path) with the file holding data, lines 221-229: the fields are
\* assigned one after the other, and an absent key raises KeyError at its
\* line, after the assignments before it
Load(data) ==
    LET hasVocab == "vocab" \in DOMAIN data
        hasMerges == hasVocab /\ "merges" \in DOMAIN data
        hasAll == hasMerges /\ "vocab_size" \in DOMAIN data
    IN  /\ pc # "training"
        /\ vocab' = IF hasVocab THEN data.vocab ELSE vocab
        /\ merges' = IF hasMerges THEN ToTuples(data.merges) ELSE merges
        /\ vocab_size' = IF hasAll THEN data.vocab_size ELSE vocab_size
        /\ inv_vocab' = IF hasAll THEN <<Inverse(data.vocab)>> ELSE inv_vocab
        /\ pc' = IF hasAll THEN "loaded" ELSE IF hasVocab THEN "load_failed" ELSE pc
        /\ ret' = [op |-> "load", arg |-> data, at |-> pc,
                   outcome |-> IF hasAll THEN "ok" ELSE "KeyError", value |-> <<>>]
        /\ UNCHANGED <<simple, texts, word_freqs, vocab_list, splits, file, saved>>

InitCodec ==
    /\ Init
    /\ vocab_size \in CodecVocabSizes

\* encode and decode change no field of the tokenizer, so the calls that
\* follow one of them are the calls that could have been made in its place:
\* a run is followed up to its first encode or decode.
Ready == ret.op \notin {"encode", "decode"}

\* what open(path) holds: the record save wrote, or else a foreign record
FileContents == IF file = <<>> THEN ForeignData ELSE Range(file)

\* One tokenizer is trained and saved; new tokenizers load what the file
\* holds.
NextCodec ==
    \/ Ready /\ pc = "new" /\ file = <<>> /\ \E t \in CodecCorpora : TrainBegin(t)
    \/ Ready /\ MergeStep
    \/ Ready /\ TrainEnd
    \/ Ready /\ \E text \in EncTexts : Encode(text)
    \/ Ready /\ \E ids \in DecInputs : Decode(ids)
    \/ Ready /\ pc = "trained" /\ Save
    \/ Ready /\ file # <<>> /\ \E vs \in CodecVocabSizes : Construct(vs)
    \/ Ready /\ \E data \in FileContents : Load(data)

SpecCodec == InitCodec /\ [][NextCodec]_vars

----------------------------------------------------------------------------
(* train called again on a trained tokenizer *)

FirstCorpora == CodecCorpora \cup {<<d>> : d \in ShortDocs}

\* a first train on a new tokenizer, then a second train on the same object
NextRetrain ==
    \/ pc = "new" /\ \E t \in FirstCorpora : TrainBegin(t)
    \/ pc = "trained" /\ ret.at = "new" /\ \E t \in CodecCorpora : TrainBegin(t)
    \/ MergeStep
    \/ TrainEnd

\* a call of train that has begun runs on: the code is sequential
SpecRetrain ==
    Init /\ [][NextRetrain]_vars /\ WF_vars(MergeStep) /\ WF_vars(TrainEnd)

----------------------------------------------------------------------------
(* The calls on a SimpleSubwordTokenizer *)

\* SimpleSubwordTokenizer(text), lines 238-252: build_vocab runs when the
\* text is not empty
SimpleConstruct(text) ==
    /\ simple' = IF text # <<>> THEN build_vocab(text) ELSE SimpleNew
    /\ ret' = [op |-> "SimpleSubwordTokenizer", arg |-> text, at |-> "new",
               outcome |-> "ok", value |-> <<>>]
    /\ UNCHANGED <<vocab_size, vocab, merges, inv_vocab, pc, texts, word_freqs,
                   vocab_list, splits, file, saved>>

\* build_vocab(text) on an existing object, lines 254-276
SimpleBuildVocab(text) ==
    /\ simple' = build_vocab(text)
    /\ ret' = [op |-> "build_vocab", arg |-> text, at |-> "built",
               outcome |-> "ok", value |-> <<>>]
    /\ UNCHANGED <<vocab_size, vocab, merges, inv_vocab, pc, texts, word_freqs,
                   vocab_list, splits, file, saved>>

\* encode(text), lines 278-294
SimpleEncode(text) ==
    /\ ret' = [op |-> "simple_encode", arg |-> text,
               at |-> IF simple = SimpleNew THEN "new" ELSE "built",
               outcome |-> simple_encode(simple.token_to_id, text).outcome,
               value |-> simple_encode(simple.token_to_id, text).value]
    /\ UNCHANGED <<vocab_size, vocab, merges, inv_vocab, pc, texts, word_freqs,
                   vocab_list, splits, file, saved, simple>>

InitSimple ==
    /\ Init
    /\ vocab_size = 30

\* the text the tokenizer was last built from, when the last call built it
BuiltFrom ==
    IF ret.op \in {"SimpleSubwordTokenizer", "build_vocab"} THEN {ret.arg} ELSE {}

\* A tokenizer is constructed from a text, may be rebuilt from another, and
\* encodes; a run is followed up to its first encode.
NextSimple ==
    \/ ret = NoRet /\ \E t \in Docs : SimpleConstruct(t)
    \/ ret.op = "SimpleSubwordTokenizer" /\ \E t \in ShortDocs : SimpleBuildVocab(t)
    \/ ret.op # "simple_encode" /\ \E t \in EncTexts \cup BuiltFrom : SimpleEncode(t)

SpecSimple == InitSimple /\ [][NextSimple]_vars

----------------------------------------------------------------------------
(* Claims about train *)

\* C1 as stated: training a new tokenizer with vocab_size = 30 on the example
\* corpus records (t, h) as the first merge rule.
C1_FirstMergeIsTH ==
    (pc = "trained" /\ ret.at = "new" /\ texts = Example /\ vocab_size = 30)
        => (Len(merges) >= 1 /\ merges[1] = Tuple(<<"t">>, <<"h">>))

\* C1 amended: training a new tokenizer with vocab_size = 30 on the example
\* corpus records (a, t) as the first merge rule: (a, t) occurs in cat (2),
\* sat, mat and ate, 5 times, and (t, h) 3 times.
C1_FirstMergeIsAT ==
    (pc = "trained" /\ ret.at = "new" /\ texts = Example /\ vocab_size = 30)
        => (Len(merges) >= 1 /\ merges[1] = Tuple(<<"a">>, <<"t">>))

C1_Witness ==
    /\ pc = "trained" /\ ret.op = "train" /\ ret.at = "new"
    /\ texts = Example /\ vocab_size = 30
    /\ Len(merges) >= 1

\* C2: the vocabulary built by train never has more entries than vocab_size,
\* neither the list at any point of the loop nor the final self.vocab.
C2_VocabWithinTarget ==
    /\ pc = "training" => Len(vocab_list) <= vocab_size
    /\ pc = "trained" => Cardinality(DOMAIN vocab) <= vocab_size

\* C3: after train the ids of self.vocab are exactly 0..n-1, inv_vocab is the
\* exact inverse of vocab, and the training-time token list has no repeated
\* string.
C3_Contiguity ==
    pc = "trained" =>
        LET n == Cardinality(DOMAIN vocab)
            inv == inv_vocab[1]
        IN  /\ {vocab[t] : t \in DOMAIN vocab} = 0..(n - 1)
            /\ DOMAIN inv = 0..(n - 1)
            /\ \A t \in DOMAIN vocab : inv[vocab[t]] = t
            /\ \A i \in DOMAIN inv : inv[i] \in DOMAIN vocab /\ vocab[inv[i]] = i
            /\ \A i, j \in DOMAIN vocab_list :
                    vocab_list[i] = vocab_list[j] => i = j

\* a trained vocabulary with repeated characters in the corpus and merged
\* tokens built from merged tokens
C3_Witness ==
    /\ pc = "trained"
    /\ Len(merges) >= 3
    /\ \E i \in DOMAIN merges : Len(merges[i].l) >= 2
    /\ \E d \in Range(texts) : \E i, j \in DOMAIN d : i # j /\ d[i] = d[j] /\ d[i] # " "

\* the words of the corpus in corpus order, with repetitions
AllWords == Flatten([d \in DOMAIN texts |-> _pre_tokenize(texts[d])])

\* the index at which a word is first seen in the corpus
FirstSeen(w) == CHOOSE i \in DOMAIN AllWords :
                    AllWords[i] = w /\ \A j \in 1..(i - 1) : AllWords[j] # w

\* the number of occurrences of a word in the corpus
Occurrences(w) == Cardinality({i \in DOMAIN AllWords : AllWords[i] = w})

\* the places (word, index) at which pair p stands in the current splits
AllPlaces ==
    UNION {{<<w, i>> : i \in 1..(Len(splits[w]) - 1)} : w \in DOMAIN splits}

PairAt(x) == Tuple(splits[x[1]][x[2]], splits[x[1]][x[2] + 1])

Places(p) == {x \in AllPlaces : PairAt(x) = p}

RECURSIVE SumOcc(_)
SumOcc(ps) ==
    IF ps = {} THEN 0
    ELSE LET x == CHOOSE x \in ps : TRUE IN Occurrences(x[1]) + SumOcc(ps \ {x})

\* the accumulated frequency of pair p: every place weighted by the word's
\* occurrence count
Frequency(p) == SumOcc(Places(p))

AllPairs == {PairAt(x) : x \in AllPlaces}

\* place x is scanned before place y: words in first-seen order, inside a
\* word left to right
Before(x, y) ==
    \/ FirstSeen(x[1]) < FirstSeen(y[1])
    \/ x[1] = y[1] /\ x[2] < y[2]

\* pair p is observed before pair q
ObservedBefore(p, q) ==
    \E x \in Places(p) : \A y \in Places(q) : Before(x, y)

\* p has the maximum frequency and is the first observed of the pairs that
\* have it
IsFirstMax(p) ==
    /\ p \in AllPairs
    /\ \A q \in AllPairs :
          /\ Frequency(q) <= Frequency(p)
          /\ (q # p /\ Frequency(q) = Frequency(p)) => ObservedBefore(p, q)

\* C6: the pair a merge iteration records has the maximum accumulated
\* frequency and, among the pairs tied at the maximum, is the first observed
\* when scanning the words in first-seen order and each word left to right.
C6_MaxFirstObserved ==
    [][Len(merges') = Len(merges) + 1 => IsFirstMax(merges'[Len(merges')])]_vars

\* a second iteration in which two pairs are tied at the maximum and a word
\* that occurs more than once contributes
C6_Witness ==
    /\ pc = "training" /\ Len(merges) >= 1
    /\ Len(vocab_list) < vocab_size /\ pair_freqs # <<>>
    /\ \E q \in AllPairs : q # best_pair /\ Frequency(q) = Frequency(best_pair)
    /\ \E x \in Places(best_pair) : Occurrences(x[1]) >= 2

\* C9: training with vocab_size < 4 (the number of special tokens) ends in an
\* InvalidConfigError and produces no vocabulary.
C9_InvalidConfig ==
    (pc = "trained" /\ vocab_size < Len(special_tokens))
        => (ret.outcome = "InvalidConfigError" /\ DOMAIN vocab = {})

----------------------------------------------------------------------------
(* Claims about encode, decode, save and load *)

LowerChars == {c \in WordChars : lower_char(c) = c}
PunctChars == {".", ",", "!", "?"}

\* lowercase words and punctuation, separated by single spaces
IsPlainText(text) ==
    /\ \A i \in DOMAIN text : text[i] \in LowerChars \cup PunctChars \cup {" "}
    /\ text # <<>> => (text[1] # " " /\ text[Len(text)] # " ")
    /\ \A i \in 1..(Len(text) - 1) : ~(text[i] = " " /\ text[i + 1] = " ")

\* C4: on an untrained tokenizer, for a text of lowercase words and
\* punctuation separated by single spaces, decode(encode(text)) returns a
\* result and the result is the text.
C4_RoundTripUntrained ==
    (ret.op = "encode" /\ ret.at = "new" /\ IsPlainText(ret.arg))
        => /\ ret.outcome = "ok"
           /\ decode(inv_vocab, ret.value).outcome = "ok"
           /\ decode(inv_vocab, ret.value).value = ret.arg

\* the tokenizer has just loaded the record that save wrote from a trained
\* tokenizer
Restored ==
    /\ ret.op = "load" /\ ret.outcome = "ok"
    /\ file # <<>> /\ ret.arg = file[1]
    /\ saved[1].pc = "trained"

\* C7: a tokenizer that loads the record saved from a trained tokenizer t has
\* t's vocab, ordered merges and vocab_size, and encode and decode give on it
\* the results they give on t, for every text and every id sequence.
C7_SaveLoadRoundTrip ==
    Restored =>
        LET t == saved[1].self
        IN  /\ vocab = t.vocab
            /\ merges = t.merges
            /\ vocab_size = t.vocab_size
            /\ \A text \in EncTexts :
                  encode(vocab, merges, text) = encode(t.vocab, t.merges, text)
            /\ \A ids \in DecInputs :
                  decode(inv_vocab, ids) = decode(t.inv_vocab, ids)

\* a newly constructed tokenizer has loaded the record of a tokenizer whose
\* rules change the segmentation of some text
C7_Witness ==
    /\ Restored /\ ret.at = "new"
    /\ Len(merges) >= 2
    /\ \E text \in EncTexts :
          /\ encode(vocab, merges, text).outcome = "ok"
          /\ encode(vocab, merges, text) # encode(vocab, <<>>, text)

\* a field is absent, or the ids of vocab are not exactly 0..n-1
Malformed(data) ==
    \/ {"vocab", "merges", "vocab_size"} \ DOMAIN data # {}
    \/ {data.vocab[t] : t \in DOMAIN data.vocab}
           # 0..(Cardinality(DOMAIN data.vocab) - 1)

\* C8: load rejects a record with DeserializationError, and leaves vocab,
\* merges and vocab_size as they were, when a field is absent or the ids of
\* vocab are not exactly 0..n-1.
C8_LoadRejectsMalformed ==
    [][(ret'.op = "load" /\ ret' # ret /\ Malformed(ret'.arg))
          => (ret'.outcome = "DeserializationError"
              /\ UNCHANGED <<vocab, merges, vocab_size>>)]_vars

\* C10: on a trained tokenizer encode returns, for every text, ids in 0..n-1:
\* the unk id for every symbol of the word tokenization that the vocabulary
\* does not hold, and its own id for every other symbol.
C10_EncodeTotal ==
    (ret.op = "encode" /\ ret.at = "trained") =>
        LET syms == Symbols(merges, ret.arg)
            n == Cardinality(DOMAIN vocab)
        IN  /\ ret.outcome = "ok"
            /\ Len(ret.value) = Len(syms)
            /\ \A i \in DOMAIN ret.value :
                  /\ ret.value[i] \in 0..(n - 1)
                  /\ syms[i] \in DOMAIN vocab => ret.value[i] = vocab[syms[i]]
                  /\ syms[i] \notin DOMAIN vocab => ret.value[i] = vocab[unk_token]

\* a text with a merged symbol of the vocabulary and a character never seen
\* in training
C10_Witness ==
    /\ ret.op = "encode" /\ ret.at = "trained" /\ ret.outcome = "ok"
    /\ \E i, j \in DOMAIN ret.value :
          /\ Symbols(merges, ret.arg)[i] \notin DOMAIN vocab
          /\ ret.value[i] = 1
          /\ Len(Symbols(merges, ret.arg)[j]) >= 2
          /\ Symbols(merges, ret.arg)[j] \in DOMAIN vocab

\* the ids of the sequence that are mapped to a token that is not special
KeptIds(ids) ==
    SelectSeq(ids, LAMBDA i : \E t \in DOMAIN vocab :
                                vocab[t] = i /\ t \notin Range(special_tokens))

TokenOfId(i) == CHOOSE t \in DOMAIN vocab : vocab[t] = i

\* C11: on a trained tokenizer decode returns, for every id sequence, the
\* concatenation in order, without separator, of the tokens of the ids that
\* are mapped and whose token is not a special token; special and unmapped
\* ids contribute nothing and cause no error.
C11_DecodeConcatenates ==
    (ret.op = "decode" /\ ret.at = "trained") =>
        /\ ret.outcome = "ok"
        /\ ret.value = Flatten([k \in DOMAIN KeptIds(ret.arg) |->
                                  TokenOfId(KeptIds(ret.arg)[k])])

\* ids of a merged token, of a special token and of no token, in one call
C11_Witness ==
    /\ ret.op = "decode" /\ ret.at = "trained" /\ ret.outcome = "ok"
    /\ Len(merges) >= 1
    /\ \E i, j \in DOMAIN ret.arg :
          /\ ret.arg[i] \in {vocab[t] : t \in Range(special_tokens)}
          /\ ret.arg[j] \in {vocab[t] : t \in DOMAIN vocab}
          /\ Len(TokenOfId(ret.arg[j])) >= 2 /\ Len(TokenOfId(ret.arg[j])) < Len(pad_token)
    /\ ret.value # <<>>

\* an unmapped id next to the id of a character
C11_WitnessUnmapped ==
    /\ ret.op = "decode" /\ ret.at = "trained" /\ ret.outcome = "ok"
    /\ \E i \in DOMAIN ret.arg : ret.arg[i] \notin {vocab[t] : t \in DOMAIN vocab}
    /\ Len(ret.value) = 1

\* C14: after train on a new tokenizer, _tokenize_word returns for every word
\* of the corpus the symbol sequence the split table ended with, so every
\* symbol is in the vocabulary and encoding a training text never gives the
\* unk id.
C14_EncodeAgreesWithTraining ==
    (pc = "trained" /\ ret.op = "train" /\ ret.at = "new") =>
        /\ \A w \in DOMAIN splits :
              /\ _tokenize_word(merges, w) = splits[w]
              /\ Range(_tokenize_word(merges, w)) \subseteq DOMAIN vocab
        /\ \A d \in DOMAIN texts :
              /\ encode(vocab, merges, texts[d]).outcome = "ok"
              /\ vocab[unk_token] \notin Range(encode(vocab, merges, texts[d]).value)

\* a word that ends as two symbols, one of them merged from a merged symbol,
\* and a rule whose pair overlaps itself in a word
C14_Witness ==
    /\ pc = "trained" /\ ret.op = "train" /\ ret.at = "new"
    /\ Len(merges) >= 2
    /\ \E w \in DOMAIN splits :
          /\ Len(splits[w]) = 2
          /\ \E i \in DOMAIN merges :
                Len(merges[i].l) >= 2 /\ merges[i].l \o merges[i].r \in Range(splits[w])
    /\ \E i \in DOMAIN merges : merges[i].l = merges[i].r

\* the single characters of the words of the corpus of the last train
CorpusChars == UNION {Range(Chars(AllWords[i])) : i \in DOMAIN AllWords}

\* C15: after any sequence of train calls on one tokenizer, the token l+r of
\* every rule (l, r) of self.merges is in self.vocab, and there are as many
\* rules as vocabulary tokens that are neither special tokens nor single
\* characters of the last corpus.
C15_MergesMatchVocab ==
    (pc = "trained" /\ ret.op = "train") =>
        /\ \A i \in DOMAIN merges : merges[i].l \o merges[i].r \in DOMAIN vocab
        /\ Len(merges) = Cardinality(DOMAIN vocab \ (Range(special_tokens) \cup CorpusChars))

C12_WitnessEmpty ==
    /\ pc = "trained" /\ ret.op = "train" /\ ret.arg = <<>>
    /\ DOMAIN vocab = Range(special_tokens)

\* the ids the claim gives one word: its own id, or one id per character
WordIds(t2i, w) ==
    IF w \in DOMAIN t2i THEN <<t2i[w]>>
    ELSE [k \in DOMAIN w |-> IF <<w[k]>> \in DOMAIN t2i THEN t2i[<<w[k]>>]
                             ELSE t2i[simple_unk_token]]

\* C13: on a SimpleSubwordTokenizer built from a text, encode gives every
\* word of its input the word's own id when the word is in the vocabulary,
\* and else one id per character, the unk id standing for the characters the
\* vocabulary lacks; every character of the text the tokenizer was built
\* from that is not white space is in the vocabulary, and the encoding of
\* that text holds no unk id.
C13_SimpleEncode ==
    (ret.op = "simple_encode" /\ ret.at = "built") =>
        LET words == _pre_tokenize(ret.arg)
            t2i == simple.token_to_id
        IN  /\ ret.outcome = "ok"
            /\ ret.value = Flatten([i \in DOMAIN words |-> WordIds(t2i, words[i])])
            /\ simple = build_vocab(ret.arg) =>
                  /\ \A c \in Range(lower(ret.arg)) \ SpaceChars : <<c>> \in DOMAIN t2i
                  /\ t2i[simple_unk_token] \notin Range(ret.value)

\* the tokenizer encodes the text it was built from, which has more distinct
\* words than build_vocab keeps, and one of them is encoded by its characters
C13_Witness ==
    /\ ret.op = "simple_encode" /\ ret.at = "built" /\ ret.outcome = "ok"
    /\ simple = build_vocab(ret.arg)
    /\ Cardinality(Range(_pre_tokenize(ret.arg))) > TopWords
    /\ \E w \in Range(_pre_tokenize(ret.arg)) :
          w \notin DOMAIN simple.token_to_id /\ Len(w) >= 2

\* some other text is encoded, with a word of the vocabulary, a word encoded
\* by its characters and a character that gets the unk id
C13_WitnessUnk ==
    /\ ret.op = "simple_encode" /\ ret.at = "built" /\ ret.outcome = "ok"
    /\ simple.token_to_id[simple_unk_token] \in Range(ret.value)
    /\ \E w \in Range(_pre_tokenize(ret.arg)) :
          w \in DOMAIN simple.token_to_id /\ Len(w) >= 2

====
